---------------------------- MODULE Spec2Model ----------------------------
(***************************************************************************)
(* Model of PyWXSB/XMLSchema/structures.py: the XML Schema component       *)
(* model, the built-in bootstrap, the schema registry (class Schema) and   *)
(* the deferred-resolution fixpoint driver.                                *)
(*                                                                         *)
(* Python objects live in a heap (a sequence of records, a reference is an *)
(* index, None is 0).  Every method is a pure operator from a world record *)
(* to a world record; a raised exception is the world's exc field and the  *)
(* mutations made before the raise stay in the world, as they do in        *)
(* Python.  The actions apply the operators to the variables.              *)
(***************************************************************************)
EXTENDS Integers, Sequences, FiniteSets, TLC

(***************************************************************************)
(* Bounds of the model.                                                    *)
(***************************************************************************)
\* Top-level simpleType/complexType elements handed to CreateFromDOM.
MaxTopLevel == 3

(***************************************************************************)
(* Values.                                                                 *)
(***************************************************************************)
\* Python's None as an object reference (heap indices start at 1).
None == 0
\* Python's None in a field that otherwise holds an enumeration value.
Unset == "None"
\* An attribute that the DOM element does not carry (hasAttribute is false).
NoAttr == "#absent"
\* The name of a type definition without a name attribute.
NoName == "#anonymous"
\* No exception is propagating.
NoExc == "ok"
\* __memberTypeDefinitions = None (as opposed to the empty list).
NoMembers == <<None>>
\* A field holding None where a record (DOM node, wildcard, content) goes.
NoneRec == [none |-> TRUE]

VARIETY_absent == "VARIETY_absent"
VARIETY_atomic == "VARIETY_atomic"
VARIETY_list == "VARIETY_list"
VARIETY_union == "VARIETY_union"

DM_empty == "DM_empty"
DM_extension == "DM_extension"
DM_restriction == "DM_restriction"

CT_EMPTY == "CT_EMPTY"
CT_SIMPLE == "CT_SIMPLE"
CT_MIXED == "CT_MIXED"
CT_ELEMENT_ONLY == "CT_ELEMENT_ONLY"

NC_any == "##any"
PC_lax == "PC_lax"
C_SEQUENCE == "C_SEQUENCE"

LogicError == "LogicError"
SchemaValidationError == "SchemaValidationError"
IncompleteImplementationError == "IncompleteImplementationError"
AssertionError == "AssertionError"
AttributeError == "AttributeError"
\* ' '.join of a list that holds None, the name() of an anonymous type
TypeError == "TypeError"
\* LogicError('Infinite loop resolving types: ...'), the non-convergence
\* error of _resolveTypeDefinitions.
InfiniteLoop == "LogicError: Infinite loop resolving types"
\* Raised by the schema's name lookup for a name that is not declared.
LookupFailure == "LookupFailure"
\* Not an exception: the call never returns (a loop that does not end).
Diverges == "Diverges"

STD == "SimpleTypeDefinition"
CTD == "ComplexTypeDefinition"

\* Local names of the built-in definitions the bootstrap registers.
BuiltinNames == {"anyType", "anySimpleType", "string", "token", "NMTOKENS"}
\* Local names a schema document may give to its own definitions.
SchemaNames == {"A", "B", "C"}
Names == BuiltinNames \cup SchemaNames

(***************************************************************************)
(* DOM nodes.  A simpleType element is described by what _resolve reads of *)
(* it: how many list, restriction and union children it has, the base and  *)
(* itemType attributes, whether the union carries memberTypes, and how     *)
(* many simpleType element children the list and union bodies have.  A     *)
(* nested simpleType child is an anonymous restriction of childBase.       *)
(***************************************************************************)
\* <simpleType name=n/> : none of the three forms
EmptySimpleNode(n) ==
    [tag |-> "simpleType", name |-> n,
     nList |-> 0, itemType |-> NoAttr, listChildren |-> 0,
     nRestriction |-> 0, base |-> NoAttr,
     nUnion |-> 0, memberTypes |-> FALSE, unionChildren |-> 0,
     childBase |-> NoAttr]
\* <simpleType name=n><restriction base=b/></simpleType>
RestrictionNode(n, b) ==
    [EmptySimpleNode(n) EXCEPT !.nRestriction = 1, !.base = b]
\* <simpleType name=n><list itemType=t/></simpleType>
ListNode(n, t) ==
    [EmptySimpleNode(n) EXCEPT !.nList = 1, !.itemType = t]
\* <simpleType name=n><list><simpleType><restriction base=b/>...
AnonListNode(n, b) ==
    [EmptySimpleNode(n) EXCEPT !.nList = 1, !.listChildren = 1, !.childBase = b]
\* <simpleType name=n><union> k nested simpleType children </union>
UnionNode(n, k, b) ==
    [EmptySimpleNode(n) EXCEPT !.nUnion = 1, !.unionChildren = k, !.childBase = b]
\* <simpleType name=n><union memberTypes="..."/></simpleType>
MemberTypesNode(n) == [UnionNode(n, 0, NoAttr) EXCEPT !.memberTypes = TRUE]
\* The nested simpleType child of a list or union body.
ChildNode(node) == RestrictionNode(NoName, node.childBase)

(***************************************************************************)
(* A complexType element: its first element child (none, simpleContent,    *)
(* complexContent or something else), the first element child of that      *)
(* wrapper (none, restriction, extension or something else) and the        *)
(* wrapper child's base attribute.                                         *)
(***************************************************************************)
ComplexNode(name, firstElt, ions, base) ==
    [tag |-> "complexType", name |-> name, firstElt |-> firstElt,
     ions |-> ions, base |-> base, abstract |-> NoAttr]
\* The same element with the attribute abstract="true".
AbstractNode(node) == [node EXCEPT !.abstract = "true"]

(***************************************************************************)
(* Worlds.                                                                 *)
(***************************************************************************)
Raise(w, e) == [w EXCEPT !.exc = e]
Ok(w) == w.exc = NoExc
Return(w, v) == [w EXCEPT !.ret = v]

\* Object construction: the new object is the last of the heap.
New(w, obj) == [w EXCEPT !.heap = Append(@, obj), !.ret = Len(w.heap) + 1]

Wildcard(namespace_constraint, process_contents) ==
    [namespaceConstraint |-> namespace_constraint,
     processContents |-> process_contents]

\* Particle.__init__; maxOccurs None (unbounded) is -1.
Unbounded == -1
Particle(term, min_occurs, max_occurs) ==
    [term |-> term, minOccurs |-> min_occurs, maxOccurs |-> max_occurs,
     exc |-> IF max_occurs # Unbounded /\ min_occurs > max_occurs
             THEN LogicError ELSE NoExc]

ModelGroup(compositor, particles) ==
    [compositor |-> compositor, particles |-> particles]

\* ComplexTypeDefinition.__init__ and the class-level defaults.
NewCTD(local_name, derivation_method) ==
    [cls |-> CTD, name |-> local_name, derivationMethod |-> derivation_method,
     baseTypeDefinition |-> None, attributeUses |-> NoneRec,
     attributeWildcard |-> NoneRec, contentType |-> NoneRec,
     final |-> DM_empty, prohibitedSubstitutions |-> DM_empty,
     abstract |-> FALSE, domNode |-> NoneRec]

\* SimpleTypeDefinition.__init__ and the class-level defaults.
NewSTD(name, variety) ==
    [cls |-> STD, name |-> name, variety |-> variety,
     baseTypeDefinition |-> None, primitiveTypeDefinition |-> None,
     itemTypeDefinition |-> None, memberTypeDefinitions |-> NoMembers,
     domNode |-> NoneRec, isBuiltin |-> FALSE, pythonSupport |-> None]

IsSimple(w, o) == o # None /\ w.heap[o].cls = STD
IsComplex(w, o) == o # None /\ w.heap[o].cls = CTD

\* SimpleTypeDefinition.isResolved / ComplexTypeDefinition.isResolved
isResolved(w, o) ==
    IF w.heap[o].cls = STD THEN w.heap[o].variety # Unset
    ELSE w.heap[o].derivationMethod # Unset

\* e's value handed to F: the callee's result is computed once and then
\* used as a value (sequencing of two calls).
Then(e, F(_)) == CHOOSE r \in {F(x) : x \in {e}} : TRUE

(***************************************************************************)
(* PythonSimpleTypeSupport (the codec bound to a simple type).             *)
(***************************************************************************)
\* PythonSimpleTypeSupport(): a new, unbound support instance.
NewPSTS(w) ==
    [w EXCEPT !.psts = Append(@, [simpleTypeDefinition |-> None]),
              !.ret = Len(w.psts) + 1]

\* A binding that takes the latest simple type (a variant of
\* _setSimpleTypeDefinition without the test for an earlier binding).
setSimpleTypeDefinitionRebinding(w, p, std) ==
    Return([w EXCEPT !.psts[p].simpleTypeDefinition = std], p)

\* PythonSimpleTypeSupport._setSimpleTypeDefinition
_setSimpleTypeDefinition(w, p, std) ==
    IF w.psts[p].simpleTypeDefinition # None
    THEN Raise(w, LogicError)
    ELSE Return([w EXCEPT !.psts[p].simpleTypeDefinition = std], p)

\* SimpleTypeDefinition._setPythonSupport
_setPythonSupport(w, self, python_support) ==
    IF python_support = None
    THEN Raise(w, AssertionError)
    ELSE _setSimpleTypeDefinition(
             [w EXCEPT !.heap[self].pythonSupport = python_support],
             python_support, self)

(***************************************************************************)
(* The built-in bootstrap.  xs_namespace is "xs" or Unset.                 *)
(***************************************************************************)
\* The ur-type as ComplexTypeDefinition.UrTypeDefinition builds it.
UrTypeInstance(self) ==
    [NewCTD("anyType", DM_restriction) EXCEPT
        !.baseTypeDefinition = self,
        !.attributeWildcard = Wildcard(NC_any, PC_lax),
        !.contentType =
            [model |-> ModelGroup(C_SEQUENCE,
                         <<Particle(Wildcard(NC_any, PC_lax), 0, Unbounded)>>),
             type |-> CT_MIXED],
        !.attributeUses = [uses |-> {}],
        !.final = DM_empty,
        !.prohibitedSubstitutions = DM_empty,
        !.abstract = FALSE]

\* A factory that constructs an instance whenever it is given a namespace
\* (a variant of UrTypeDefinition without the test for a second definition).
UrTypeDefinitionPerCall(w, xs_namespace) ==
    IF xs_namespace # Unset
    THEN [w EXCEPT !.heap = Append(@, UrTypeInstance(Len(w.heap) + 1)),
                   !.UrType = Len(w.heap) + 1,
                   !.ret = Len(w.heap) + 1]
    ELSE IF w.UrType = None THEN Raise(w, AssertionError)
    ELSE Return(w, w.UrType)

\* ComplexTypeDefinition.UrTypeDefinition
UrTypeDefinition(w, xs_namespace) ==
    IF xs_namespace # Unset /\ w.UrType # None
    THEN Raise(w, LogicError)
    ELSE IF w.UrType = None
    THEN IF xs_namespace = Unset
         THEN Raise(w, AssertionError)
         ELSE [w EXCEPT !.heap = Append(@, UrTypeInstance(Len(w.heap) + 1)),
                        !.UrType = Len(w.heap) + 1,
                        !.ret = Len(w.heap) + 1]
    ELSE Return(w, w.UrType)

\* SimpleUrTypeDefinition, after the instance bi is constructed and bound
\* to its support instance: the base type is the ur-type.
SimpleUrTypeBase(w, bi) ==
    Then(UrTypeDefinition(w, Unset), LAMBDA w1 :
        IF ~Ok(w1) THEN w1
        ELSE Return([w1 EXCEPT !.heap[bi].baseTypeDefinition = w1.ret,
                               !.SimpleUrType = bi], bi))

\* A factory that hands out the singleton it has whatever the argument (a
\* variant of SimpleUrTypeDefinition without the test for a second
\* definition).
SimpleUrTypeDefinitionLenient(w, xs_namespace) ==
    IF w.SimpleUrType # None THEN Return(w, w.SimpleUrType)
    ELSE IF xs_namespace = Unset THEN Raise(w, AssertionError)
    ELSE Then(NewPSTS(New(w, NewSTD("anySimpleType", VARIETY_absent))),
              LAMBDA w1 :
         Then(_setPythonSupport(w1, Len(w1.heap), w1.ret), LAMBDA w2 :
             IF ~Ok(w2) THEN w2
             ELSE SimpleUrTypeBase(w2, Len(w2.heap))))

\* SimpleTypeDefinition.SimpleUrTypeDefinition
SimpleUrTypeDefinition(w, xs_namespace) ==
    IF xs_namespace # Unset /\ w.SimpleUrType # None
    THEN Raise(w, LogicError)
    ELSE IF w.SimpleUrType = None
    THEN IF xs_namespace = Unset
         THEN Raise(w, AssertionError)
         ELSE Then(NewPSTS(New(w, NewSTD("anySimpleType", VARIETY_absent))),
                   LAMBDA w1 :
              Then(_setPythonSupport(w1, Len(w1.heap), w1.ret), LAMBDA w2 :
                  IF ~Ok(w2) THEN w2
                  ELSE SimpleUrTypeBase(w2, Len(w2.heap))))
    ELSE Return(w, w.SimpleUrType)

\* CreatePrimitiveInstance, after the instance bi is constructed and bound
\* to its support instance.
PrimitiveBase(w, bi) ==
    Then(SimpleUrTypeDefinition(w, Unset), LAMBDA w1 :
        IF ~Ok(w1) THEN w1
        ELSE Return([w1 EXCEPT !.heap[bi].baseTypeDefinition = w1.ret,
                               !.heap[bi].primitiveTypeDefinition = bi,
                               !.heap[bi].isBuiltin = TRUE], bi))

\* SimpleTypeDefinition.CreatePrimitiveInstance
CreatePrimitiveInstance(w, name, python_support) ==
    Then(New(w, NewSTD(name, VARIETY_atomic)), LAMBDA w1 :
    Then(_setPythonSupport(w1, w1.ret, python_support), LAMBDA w2 :
        IF ~Ok(w2) THEN w2 ELSE PrimitiveBase(w2, Len(w2.heap))))

\* CreateDerivedInstance, after the instance bi is constructed and bound to
\* its support instance.
DerivedBase(w, bi, parent_std) ==
    LET primitive == IF w.heap[bi].variety = VARIETY_atomic
                     THEN w.heap[parent_std].primitiveTypeDefinition
                     ELSE w.heap[bi].primitiveTypeDefinition
    IN  Return([w EXCEPT !.heap[bi].baseTypeDefinition = parent_std,
                         !.heap[bi].primitiveTypeDefinition = primitive,
                         !.heap[bi].isBuiltin = TRUE], bi)

\* A factory that derives from a parent of any variety (a variant of
\* CreateDerivedInstance without the assertion on the parent's variety).
CreateDerivedInstanceAnyParent(w, name, parent_std, python_support) ==
    IF parent_std = None
    THEN Raise(w, AssertionError)
    ELSE Then(New(w, NewSTD(name, w.heap[parent_std].variety)), LAMBDA w1 :
         Then(_setPythonSupport(w1, w1.ret, python_support), LAMBDA w2 :
             IF ~Ok(w2) THEN w2
             ELSE DerivedBase(w2, Len(w2.heap), parent_std)))

\* SimpleTypeDefinition.CreateDerivedInstance
CreateDerivedInstance(w, name, parent_std, python_support) ==
    IF parent_std = None
    THEN Raise(w, AssertionError)
    ELSE IF w.heap[parent_std].variety \notin {VARIETY_absent, VARIETY_atomic}
    THEN Raise(w, AssertionError)
    ELSE Then(New(w, NewSTD(name, w.heap[parent_std].variety)), LAMBDA w1 :
         Then(_setPythonSupport(w1, w1.ret, python_support), LAMBDA w2 :
             IF ~Ok(w2) THEN w2
             ELSE DerivedBase(w2, Len(w2.heap), parent_std)))

\* SimpleTypeDefinition.CreateListInstance
CreateListInstance(w, name, item_std) ==
    Then(New(w, NewSTD(name, VARIETY_list)), LAMBDA w1 :
    Then(SimpleUrTypeDefinition(w1, Unset), LAMBDA w2 :
        IF ~Ok(w2) THEN w2
        ELSE IF item_std = None
        THEN Raise([w2 EXCEPT !.heap[w1.ret].baseTypeDefinition = w2.ret],
                   AssertionError)
        ELSE Return([w2 EXCEPT !.heap[w1.ret].baseTypeDefinition = w2.ret,
                               !.heap[w1.ret].itemTypeDefinition = item_std,
                               !.heap[w1.ret].isBuiltin = TRUE], w1.ret)))
(***************************************************************************)
(* The schema registry (class Schema).                                     *)
(***************************************************************************)
\* A queue that takes a definition twice (a variant of
\* _addUnresolvedTypeDefinition).
addUnresolvedTypeDefinitionTwice(w, std) ==
    Return([w EXCEPT !.unresolvedTypeDefinitions = Append(Append(@, std), std)],
           std)

\* Schema._addUnresolvedTypeDefinition
_addUnresolvedTypeDefinition(w, std) ==
    Return([w EXCEPT !.unresolvedTypeDefinitions = Append(@, std)], std)

\* x in list
InList(q, x) == \E i \in 1..Len(q) : q[i] = x

\* list.remove(x): drops the first occurrence of x.
ListRemove(q, x) ==
    LET i == CHOOSE k \in 1..Len(q) :
                 q[k] = x /\ \A j \in 1..(k - 1) : q[j] # x
    IN  SubSeq(q, 1, i - 1) \o SubSeq(q, i + 1, Len(q))

\* An absorption that copies the node but leaves the variety as it was (a
\* variant of SimpleTypeDefinition._setFromInstance).
STD_setFromInstanceKeepingVariety(w, self, other) ==
    IF w.heap[other].baseTypeDefinition # None
    THEN Raise(w, AssertionError)
    ELSE IF w.heap[other].domNode = NoneRec
    THEN Raise(w, AssertionError)
    ELSE Return([w EXCEPT !.heap[self].domNode = w.heap[other].domNode], self)

\* SimpleTypeDefinition._setFromInstance
STD_setFromInstance(w, self, other) ==
    IF w.heap[other].baseTypeDefinition # None
    THEN Raise(w, AssertionError)
    ELSE IF w.heap[other].domNode = NoneRec
    THEN Raise(w, AssertionError)
    ELSE Return([w EXCEPT !.heap[self].domNode = w.heap[other].domNode,
                          !.heap[self].variety = Unset], self)

\* ComplexTypeDefinition._setFromInstance
CTD_setFromInstance(w, self, other) ==
    IF w.heap[other].derivationMethod # Unset
    THEN Raise(w, AssertionError)
    ELSE IF w.heap[other].domNode = NoneRec
    THEN Raise(w, AssertionError)
    ELSE Return([w EXCEPT !.heap[self].domNode = w.heap[other].domNode,
                          !.heap[self].derivationMethod = Unset], self)

\* old_definition._setFromInstance(definition), dispatched on the class.
_setFromInstance(w, self, other) ==
    IF w.heap[self].cls = STD THEN STD_setFromInstance(w, self, other)
    ELSE CTD_setFromInstance(w, self, other)

\* The absorbing branch of Schema._addTypeDefinition (old_definition is not
\* None and of the same kind); q is the queue after remove(definition).
AbsorbDefinition(w, definition, old_definition) ==
    IF ~InList(w.unresolvedTypeDefinitions, definition)
    THEN Raise(w, AssertionError)
    ELSE LET q == ListRemove(w.unresolvedTypeDefinitions, definition)
         IN  IF InList(q, old_definition)
             THEN Raise([w EXCEPT !.unresolvedTypeDefinitions = q],
                        AssertionError)
             ELSE _setFromInstance(
                      [w EXCEPT !.unresolvedTypeDefinitions =
                                    Append(q, old_definition)],
                      old_definition, definition)

\* A registry that writes the new definition into the name table before it
\* compares the kinds (a variant of _addTypeDefinition, used to show that
\* the rejection property depends on the order of the two).
addTypeDefinitionWritingFirst(w, definition) ==
    LET local_name == w.heap[definition].name
        old_definition == w.typeDefinitions[local_name]
    IN  IF local_name = NoName
        THEN Raise(w, AttributeError)
        ELSE IF old_definition # None
        THEN IF IsComplex(w, definition) # IsComplex(w, old_definition)
             THEN Raise([w EXCEPT !.typeDefinitions[local_name] = definition],
                        SchemaValidationError)
             ELSE AbsorbDefinition(w, definition, old_definition)
        ELSE Return([w EXCEPT !.typeDefinitions[local_name] = definition],
                    definition)

\* Schema._addTypeDefinition
_addTypeDefinition(w, definition) ==
    LET local_name == w.heap[definition].name
        old_definition == w.typeDefinitions[local_name]
    IN  IF local_name = NoName
        THEN Raise(w, AttributeError)
        ELSE IF old_definition # None
        THEN IF IsComplex(w, definition) # IsComplex(w, old_definition)
             THEN Raise(w, SchemaValidationError)
             ELSE AbsorbDefinition(w, definition, old_definition)
        ELSE Return([w EXCEPT !.typeDefinitions[local_name] = definition],
                    definition)

\* A lookup that knows the built-in names only (a variant of
\* _lookupTypeDefinition).
lookupBuiltinTypeDefinition(w, local_name) ==
    IF local_name \in BuiltinNames THEN w.typeDefinitions[local_name]
    ELSE None

\* Schema._lookupTypeDefinition
_lookupTypeDefinition(w, local_name) == w.typeDefinitions[local_name]

\* The schema's lookup of a declared type by name (any kind): the
\* registered definition, or an exception when the name is not declared.
lookupType(w, name) ==
    IF name \notin Names THEN Raise(w, LookupFailure)
    ELSE IF _lookupTypeDefinition(w, name) = None THEN Raise(w, LookupFailure)
    ELSE Return(w, _lookupTypeDefinition(w, name))

\* The schema's lookup of a declared simple type by name.
lookupSimpleType(w, name) ==
    IF name \notin Names THEN Raise(w, LookupFailure)
    ELSE IF ~IsSimple(w, _lookupTypeDefinition(w, name))
    THEN Raise(w, LookupFailure)
    ELSE Return(w, _lookupTypeDefinition(w, name))

(***************************************************************************)
(* Construction from a DOM node.                                           *)
(***************************************************************************)
\* SimpleTypeDefinition.CreateFromDOM
STD_CreateFromDOM(w, node) ==
    _addUnresolvedTypeDefinition(
        [w EXCEPT !.heap = Append(@, [NewSTD(node.name, Unset)
                                          EXCEPT !.domNode = node])],
        Len(w.heap) + 1)

\* ComplexTypeDefinition.CreateFromDOM
CTD_CreateFromDOM(w, node) ==
    _addUnresolvedTypeDefinition(
        [w EXCEPT !.heap = Append(@, [NewCTD(node.name, Unset)
                                          EXCEPT !.domNode = node])],
        Len(w.heap) + 1)
(***************************************************************************)
(* Resolution of a simple type definition.                                 *)
(***************************************************************************)
\* The loop of __completeResolution that looks for the primitive type:
\*     ptd = self
\*     while VARIETY_atomic == ptd.__variety: ptd = ptd.__baseTypeDefinition
\* The heap does not change during the loop, so coming back to a definition
\* already visited means the loop never ends.
RECURSIVE PrimitiveWalk(_, _, _)
PrimitiveWalk(w, ptd, seen) ==
    IF w.heap[ptd].cls # STD THEN [exc |-> AttributeError, ptd |-> ptd]
    ELSE IF w.heap[ptd].variety # VARIETY_atomic
    THEN [exc |-> NoExc, ptd |-> ptd]
    ELSE IF w.heap[ptd].baseTypeDefinition = None
    THEN [exc |-> AssertionError, ptd |-> ptd]
    ELSE IF ptd \in seen THEN [exc |-> Diverges, ptd |-> ptd]
    ELSE PrimitiveWalk(w, w.heap[ptd].baseTypeDefinition, seen \cup {ptd})

\* SimpleTypeDefinition.__singleSimpleTypeChild: the number of simpleType
\* element children of the list body must be one.
singleSimpleTypeChild(w, node) ==
    IF node.listChildren # 1 THEN Raise(w, AssertionError) ELSE w

\* The union branch's loop over the body's simpleType children: one
\* CreateFromDOM per child, collected in document order; k children are
\* still to be read.
RECURSIVE CreateMembers(_, _, _, _)
CreateMembers(w, node, k, mtd) ==
    IF k = 0 THEN [w |-> w, mtd |-> mtd]
    ELSE Then(STD_CreateFromDOM(w, ChildNode(node)), LAMBDA w1 :
             CreateMembers(w1, node, k - 1, Append(mtd, w1.ret)))

\* __completeResolution, atomic variety
CompleteAtomic(w, self) ==
    Then(PrimitiveWalk(w, self, {}), LAMBDA r :
        IF r.exc # NoExc THEN Raise(w, r.exc)
        ELSE [w EXCEPT !.heap[self].primitiveTypeDefinition = r.ptd])

\* __completeResolution, list variety, alternative 'list'
CompleteListForm(w, self, node) ==
    IF node.itemType # NoAttr
    THEN Then(lookupSimpleType(w, node.itemType), LAMBDA w1 :
             IF ~Ok(w1) THEN w1
             ELSE [w1 EXCEPT !.heap[self].itemTypeDefinition = w1.ret])
    ELSE IF ~Ok(singleSimpleTypeChild(w, node))
    THEN singleSimpleTypeChild(w, node)
    ELSE Then(STD_CreateFromDOM(w, ChildNode(node)), LAMBDA w1 :
             [w1 EXCEPT !.heap[self].itemTypeDefinition = w1.ret])

\* __completeResolution, list variety
CompleteList(w, self, node, alternative) ==
    IF alternative = "list" THEN CompleteListForm(w, self, node)
    ELSE IF alternative = "restriction"
    THEN [w EXCEPT !.heap[self].itemTypeDefinition =
             w.heap[w.heap[self].baseTypeDefinition].itemTypeDefinition]
    ELSE Raise(w, LogicError)

\* __completeResolution, union variety
CompleteUnion(w, self, node, alternative) ==
    IF alternative = "union"
    THEN IF node.memberTypes
         THEN Raise(w, IncompleteImplementationError)
         ELSE Then(CreateMembers(w, node, node.unionChildren, <<>>), LAMBDA r :
                  [r.w EXCEPT !.heap[self].memberTypeDefinitions = r.mtd])
    ELSE IF alternative = "restriction"
    \* assert self.__baseTypeDefinition__ : the name ends in two
    \* underscores, is not mangled and names no attribute.
    THEN Raise(w, AttributeError)
    ELSE Raise(w, LogicError)

\* SimpleTypeDefinition.__completeResolution
completeResolution(w, self, node, alternative) ==
    IF w.heap[self].variety = Unset THEN Raise(w, AssertionError)
    ELSE IF w.heap[self].variety = VARIETY_absent THEN w
    ELSE IF w.heap[self].variety = VARIETY_atomic THEN CompleteAtomic(w, self)
    ELSE IF w.heap[self].variety = VARIETY_list
    THEN CompleteList(w, self, node, alternative)
    ELSE CompleteUnion(w, self, node, alternative)

\* A list initialisation that holds the list type back while its item
\* type is unresolved (a variant of __initializeFromList, used to show
\* that the property of list resolution tells the two apart).
initializeFromListAfterItem(w, self, node) ==
    IF node.itemType \in Names
       /\ IsSimple(w, _lookupTypeDefinition(w, node.itemType))
       /\ ~isResolved(w, _lookupTypeDefinition(w, node.itemType))
    THEN _addUnresolvedTypeDefinition(w, self)
    ELSE Then(SimpleUrTypeDefinition(
                  [w EXCEPT !.heap[self].variety = VARIETY_list], Unset),
              LAMBDA w1 :
             IF ~Ok(w1) THEN w1
             ELSE completeResolution(
                      [w1 EXCEPT !.heap[self].baseTypeDefinition = w1.ret],
                      self, node, "list"))

\* SimpleTypeDefinition.__initializeFromList
initializeFromList(w, self, node) ==
    Then(SimpleUrTypeDefinition(
             [w EXCEPT !.heap[self].variety = VARIETY_list], Unset),
         LAMBDA w1 :
        IF ~Ok(w1) THEN w1
        ELSE completeResolution(
                 [w1 EXCEPT !.heap[self].baseTypeDefinition = w1.ret],
                 self, node, "list"))

\* The tail of __initializeFromRestriction, once the base is known.
RestrictBase(w, self, node, base_type) ==
    completeResolution(
        [w EXCEPT !.heap[self].baseTypeDefinition = base_type,
                  !.heap[self].variety = w.heap[base_type].variety],
        self, node, "restriction")

\* A restriction initialisation without the deferral on an unresolved base
\* (a variant of __initializeFromRestriction).
initializeFromRestrictionNoDeferral(w, self, node) ==
    IF node.base # NoAttr
    THEN Then(lookupSimpleType(w, node.base), LAMBDA w1 :
             IF ~Ok(w1) THEN w1
             ELSE RestrictBase(w1, self, node, w1.ret))
    ELSE Then(SimpleUrTypeDefinition(w, Unset), LAMBDA w1 :
             IF ~Ok(w1) THEN w1
             ELSE RestrictBase(w1, self, node, w1.ret))

\* SimpleTypeDefinition.__initializeFromRestriction
initializeFromRestriction(w, self, node) ==
    IF node.base # NoAttr
    THEN Then(lookupSimpleType(w, node.base), LAMBDA w1 :
             IF ~Ok(w1) THEN w1
             ELSE IF ~isResolved(w1, w1.ret)
             THEN _addUnresolvedTypeDefinition(w1, self)
             ELSE RestrictBase(w1, self, node, w1.ret))
    ELSE Then(SimpleUrTypeDefinition(w, Unset), LAMBDA w1 :
             IF ~Ok(w1) THEN w1
             ELSE RestrictBase(w1, self, node, w1.ret))

\* A union initialisation that leaves the base type unset (a variant of
\* __initializeFromUnion).
initializeFromUnionWithoutBase(w, self, node) ==
    completeResolution([w EXCEPT !.heap[self].variety = VARIETY_union],
                       self, node, "union")

\* SimpleTypeDefinition.__initializeFromUnion
initializeFromUnion(w, self, node) ==
    Then(SimpleUrTypeDefinition(
             [w EXCEPT !.heap[self].variety = VARIETY_union], Unset),
         LAMBDA w1 :
        IF ~Ok(w1) THEN w1
        ELSE completeResolution(
                 [w1 EXCEPT !.heap[self].baseTypeDefinition = w1.ret],
                 self, node, "union"))

\* _resolve, the list child: LocateUniqueChild(node, wxs, 'list', True)
\* and, when there is one, __initializeFromList.
ResolveListForm(w, self, node) ==
    IF node.nList > 1 THEN Raise(w, SchemaValidationError)
    ELSE IF node.nList = 1 THEN initializeFromList(w, self, node)
    ELSE w

\* _resolve, the restriction child; bad is the bad_instance flag.
ResolveRestrictionForm(w, self, node) ==
    IF node.nRestriction > 1
    THEN [w |-> Raise(w, SchemaValidationError), bad |-> FALSE]
    ELSE IF node.nRestriction = 1
    THEN IF w.heap[self].variety = Unset
         THEN [w |-> initializeFromRestriction(w, self, node), bad |-> FALSE]
         ELSE [w |-> w, bad |-> TRUE]
    ELSE [w |-> w, bad |-> FALSE]

\* _resolve, the union child.
ResolveUnionForm(w, self, node, bad_instance) ==
    IF node.nUnion > 1
    THEN [w |-> Raise(w, SchemaValidationError), bad |-> bad_instance]
    ELSE IF node.nUnion = 1
    THEN IF w.heap[self].variety = Unset
         THEN [w |-> initializeFromUnion(w, self, node), bad |-> bad_instance]
         ELSE [w |-> w, bad |-> TRUE]
    ELSE [w |-> w, bad |-> bad_instance]

\* A resolution without the early return for a definition that is resolved
\* already: it asks for the element and puts the definition back on the
\* queue (a variant of SimpleTypeDefinition._resolve).
STD_resolveAgain(w, self) ==
    IF w.heap[self].domNode = NoneRec THEN Raise(w, AssertionError)
    ELSE Return(_addUnresolvedTypeDefinition(w, self), self)

\* SimpleTypeDefinition._resolve
STD_resolve(w, self) ==
    IF w.heap[self].variety # Unset THEN Return(w, self)
    ELSE IF w.heap[self].domNode = NoneRec THEN Raise(w, AssertionError)
    ELSE Then(ResolveListForm(w, self, w.heap[self].domNode), LAMBDA w1 :
         IF ~Ok(w1) THEN w1
         ELSE Then(ResolveRestrictionForm(w1, self, w.heap[self].domNode),
                   LAMBDA r2 :
         IF ~Ok(r2.w) THEN r2.w
         ELSE Then(ResolveUnionForm(r2.w, self, w.heap[self].domNode, r2.bad),
                   LAMBDA r3 :
         IF ~Ok(r3.w) THEN r3.w
         ELSE IF r3.bad THEN Raise(r3.w, SchemaValidationError)
         ELSE Return(r3.w, self))))

(***************************************************************************)
(* Resolution of a complex type definition.                                *)
(***************************************************************************)
\* ComplexTypeDefinition.__completeSimpleResolution
completeSimpleResolution(w, self, method, base_type) ==
    _addUnresolvedTypeDefinition(w, self)

\* ComplexTypeDefinition.__completeComplexResolution
completeComplexResolution(w, self, method, base_type) ==
    _addUnresolvedTypeDefinition(w, self)

\* A content resolution that takes the ur-type as base when the base
\* attribute is missing (a variant of the part of _resolve below).
ResolveContentDefaultBase(w, self, node) ==
    IF node.ions \notin {"restriction", "extension"}
    THEN [w |-> Raise(w, SchemaValidationError), done |-> TRUE]
    ELSE IF node.base = NoAttr
    THEN [w |-> Return(w, w.UrType), done |-> FALSE]
    ELSE Then(lookupType(w, node.base), LAMBDA w1 :
             IF ~Ok(w1) THEN [w |-> w1, done |-> TRUE]
             ELSE IF ~isResolved(w1, w1.ret)
             THEN [w |-> _addUnresolvedTypeDefinition(w1, self),
                   done |-> TRUE]
             ELSE [w |-> w1, done |-> FALSE])

\* _resolve, the part guarded by have_content: the restriction or extension
\* child of the simpleContent/complexContent wrapper and its base type.
\* done says that _resolve returns (or raises) here.
ResolveContent(w, self, node) ==
    IF node.ions = "none"
    THEN [w |-> Raise(w, SchemaValidationError), done |-> TRUE]
    ELSE IF node.ions \notin {"restriction", "extension"}
    \* the message of the SchemaValidationError calls first_elt.name(),
    \* which a DOM element does not have
    THEN [w |-> Raise(w, AttributeError), done |-> TRUE]
    ELSE IF node.base = NoAttr
    THEN [w |-> Raise(w, SchemaValidationError), done |-> TRUE]
    ELSE Then(lookupType(w, node.base), LAMBDA w1 :
             IF ~Ok(w1) THEN [w |-> w1, done |-> TRUE]
             ELSE IF ~isResolved(w1, w1.ret)
             THEN [w |-> _addUnresolvedTypeDefinition(w1, self),
                   done |-> TRUE]
             ELSE [w |-> w1, done |-> FALSE])

\* _resolve, the dispatch on is_complex_content; w.ret is base_type.
CompleteContent(w, self, node) ==
    LET method == IF node.firstElt \in {"simpleContent", "complexContent"}
                     /\ node.ions = "extension"
                  THEN DM_extension ELSE DM_restriction
    IN  IF node.firstElt # "simpleContent"
        THEN Return(completeComplexResolution(w, self, method, w.ret), self)
        ELSE Return(completeSimpleResolution(w, self, method, w.ret), self)

\* datatypes.boolean.StringToPython: the boolean a lexical value stands
\* for.
StringToPython(s) == s \in {"true", "1"}

\* _resolve, the abstract attribute: parsed into __abstract when present.
ParseAbstract(w, self) ==
    IF w.heap[self].domNode.abstract = NoAttr THEN w
    ELSE [w EXCEPT !.heap[self].abstract =
                       StringToPython(w.heap[self].domNode.abstract)]

\* ComplexTypeDefinition._resolve
CTD_resolve(w, self) ==
    IF w.heap[self].derivationMethod # Unset THEN Return(w, self)
    ELSE IF w.heap[self].domNode = NoneRec THEN Raise(w, AssertionError)
    ELSE Then(UrTypeDefinition(ParseAbstract(w, self), Unset), LAMBDA w0 :
         IF ~Ok(w0) THEN w0
         \* LocateFirstChildElement(node): no element child
         ELSE IF w.heap[self].domNode.firstElt = "none"
         THEN Raise(w0, SchemaValidationError)
         ELSE IF w.heap[self].domNode.firstElt
                     \notin {"simpleContent", "complexContent"}
         THEN CompleteContent(w0, self, w.heap[self].domNode)
         ELSE Then(ResolveContent(w0, self, w.heap[self].domNode), LAMBDA r :
              IF r.done THEN (IF Ok(r.w) THEN Return(r.w, self) ELSE r.w)
              ELSE CompleteContent(r.w, self, w.heap[self].domNode)))

\* std._resolve(), dispatched on the class of std.
_resolve(w, std) ==
    IF w.heap[std].cls = STD THEN STD_resolve(w, std) ELSE CTD_resolve(w, std)
(***************************************************************************)
(* Schema._resolveTypeDefinitions, statement by statement.                 *)
(***************************************************************************)
\* A test that takes any deferral for a lack of progress (a variant of the
\* comparison below).
NoProgressWhenDeferred(queue, snapshot) == queue # <<>>

\* if self.__unresolvedTypeDefinitions == unresolved: (list equality is
\* element-wise; the elements compare by identity)
NoProgress(queue, snapshot) == queue = snapshot

(***************************************************************************)
(* The state: the heap of type definitions, the support instances, the     *)
(* two class-level singletons, the registry's name table and unresolved    *)
(* queue, and the position of the caller: pc is "scan" while the document  *)
(* is read, "made" between CreateFromDOM of a top-level element and the    *)
(* registration of its definition, "while"/"for" inside                    *)
(* _resolveTypeDefinitions (unresolved is its local snapshot, idx the      *)
(* position of its for loop), "returned" once it has returned, "raised"    *)
(* when an exception left a call (exc names it) and "hung" when a call     *)
(* never returns; ret is what the caller's last call returned and call    *)
(* is the last step's operation: its name, then its arguments.             *)
(***************************************************************************)
VARIABLES heap, psts, UrType, SimpleUrType, typeDefinitions,
          unresolvedTypeDefinitions, pc, unresolved, idx, exc, ret, call

vars == <<heap, psts, UrType, SimpleUrType, typeDefinitions,
          unresolvedTypeDefinitions, pc, unresolved, idx, exc, ret, call>>

World ==
    [heap |-> heap, psts |-> psts, UrType |-> UrType,
     SimpleUrType |-> SimpleUrType, typeDefinitions |-> typeDefinitions,
     unresolvedTypeDefinitions |-> unresolvedTypeDefinitions,
     exc |-> NoExc, ret |-> None]

\* The world before anything is constructed; Schema.__init__.
EmptyWorld ==
    [heap |-> <<>>, psts |-> <<>>, UrType |-> None, SimpleUrType |-> None,
     typeDefinitions |-> [n \in Names |-> None],
     unresolvedTypeDefinitions |-> <<>>, exc |-> NoExc, ret |-> None]

\* _addTypeDefinition of each definition of a list, in order.
RECURSIVE RegisterAll(_, _)
RegisterAll(w, defs) ==
    IF defs = <<>> THEN w
    ELSE Then(_addTypeDefinition(w, Head(defs)), LAMBDA w1 :
             RegisterAll(w1, Tail(defs)))

\* The bootstrap of the built-in datatypes: the two ur-types, the primitive
\* string, token derived from it, the list NMTOKENS; each registered under
\* its local name.
Bootstrap ==
    Then(UrTypeDefinition(EmptyWorld, "xs"), LAMBDA w1 :
    Then(SimpleUrTypeDefinition(w1, "xs"), LAMBDA w2 :
    Then(NewPSTS(w2), LAMBDA p3 :
    Then(CreatePrimitiveInstance(p3, "string", p3.ret), LAMBDA w3 :
    Then(NewPSTS(w3), LAMBDA p4 :
    Then(CreateDerivedInstance(p4, "token", w3.ret, p4.ret), LAMBDA w4 :
    Then(CreateListInstance(w4, "NMTOKENS", w4.ret), LAMBDA w5 :
        RegisterAll(w5, <<w1.ret, w2.ret, w3.ret, w4.ret, w5.ret>>))))))))

\* The variables take the world's values; an exception ends the run.
Becomes(w, next_pc) ==
    /\ heap' = w.heap
    /\ psts' = w.psts
    /\ UrType' = w.UrType
    /\ SimpleUrType' = w.SimpleUrType
    /\ typeDefinitions' = w.typeDefinitions
    /\ unresolvedTypeDefinitions' = w.unresolvedTypeDefinitions
    /\ exc' = w.exc
    /\ ret' = IF w.exc = NoExc THEN w.ret ELSE None
    /\ pc' = IF w.exc = NoExc THEN next_pc
             ELSE IF w.exc = Diverges THEN "hung" ELSE "raised"

Init ==
    /\ heap = Bootstrap.heap
    /\ psts = Bootstrap.psts
    /\ UrType = Bootstrap.UrType
    /\ SimpleUrType = Bootstrap.SimpleUrType
    /\ typeDefinitions = Bootstrap.typeDefinitions
    /\ unresolvedTypeDefinitions = Bootstrap.unresolvedTypeDefinitions
    /\ exc = Bootstrap.exc
    /\ ret = None
    /\ pc = "scan"
    /\ unresolved = <<>>
    /\ idx = 0
    /\ call = <<"bootstrap">>

\* The definitions the bootstrap made: the first objects of the heap.
Builtins == 1..Len(Bootstrap.heap)

\* The definitions made from top-level elements of the document so far.
TopLevel ==
    {o \in 1..Len(heap) : o \notin Builtins /\ heap[o].name # NoName}

\* The caller reads a top-level simpleType element.
SimpleTypeFromDOM(nodes) ==
    /\ pc = "scan"
    /\ Cardinality(TopLevel) < MaxTopLevel
    /\ \E node \in nodes :
          \E w \in {STD_CreateFromDOM(World, node)} : Becomes(w, "made")
    /\ call' = <<"CreateFromDOM">>
    /\ UNCHANGED <<unresolved, idx>>

\* The caller reads a top-level complexType element.
ComplexTypeFromDOM(nodes) ==
    /\ pc = "scan"
    /\ Cardinality(TopLevel) < MaxTopLevel
    /\ \E node \in nodes :
          \E w \in {CTD_CreateFromDOM(World, node)} : Becomes(w, "made")
    /\ call' = <<"CreateFromDOM">>
    /\ UNCHANGED <<unresolved, idx>>

\* The caller registers the definition it has just made.
AddTypeDefinition ==
    /\ pc = "made"
    /\ \E w \in {_addTypeDefinition(World, Len(heap))} : Becomes(w, "scan")
    /\ call' = <<"_addTypeDefinition">>
    /\ UNCHANGED <<unresolved, idx>>

\* The caller invokes _resolveTypeDefinitions.
ResolveTypeDefinitions ==
    /\ pc = "scan"
    /\ pc' = "while"
    /\ call' = <<"_resolveTypeDefinitions">>
    /\ UNCHANGED <<heap, psts, UrType, SimpleUrType, typeDefinitions,
                   unresolvedTypeDefinitions, unresolved, idx, exc, ret>>

\* while self.__unresolvedTypeDefinitions: take the snapshot, reset the queue
BeginPass ==
    /\ pc = "while"
    /\ unresolvedTypeDefinitions # <<>>
    /\ unresolved' = unresolvedTypeDefinitions
    /\ unresolvedTypeDefinitions' = <<>>
    /\ idx' = 1
    /\ pc' = "for"
    /\ call' = <<"_resolveTypeDefinitions">>
    /\ UNCHANGED <<heap, psts, UrType, SimpleUrType, typeDefinitions, exc, ret>>

\* for std in unresolved: std._resolve()
ResolveNext ==
    /\ pc = "for"
    /\ idx <= Len(unresolved)
    /\ \E w \in {_resolve(World, unresolved[idx])} : Becomes(w, "for")
    /\ idx' = idx + 1
    /\ call' = <<"_resolve", unresolved[idx]>>
    /\ UNCHANGED unresolved

\* after the for loop: no progress raises (the message joins the names of
\* the queued definitions), progress goes round the while
EndPass ==
    /\ pc = "for"
    /\ idx > Len(unresolved)
    /\ IF NoProgress(unresolvedTypeDefinitions, unresolved)
       THEN /\ pc' = "raised"
            /\ exc' = IF \E i \in 1..Len(unresolvedTypeDefinitions) :
                           heap[unresolvedTypeDefinitions[i]].name = NoName
                      THEN TypeError ELSE InfiniteLoop
       ELSE pc' = "while" /\ exc' = exc
    /\ call' = <<"_resolveTypeDefinitions">>
    /\ UNCHANGED <<heap, psts, UrType, SimpleUrType, typeDefinitions,
                   unresolvedTypeDefinitions, unresolved, idx, ret>>

\* the while loop ends; the queue (empty here) is dropped; return self
Finish ==
    /\ pc = "while"
    /\ unresolvedTypeDefinitions = <<>>
    /\ pc' = "returned"
    /\ call' = <<"_resolveTypeDefinitions">>
    /\ UNCHANGED <<heap, psts, UrType, SimpleUrType, typeDefinitions,
                   unresolvedTypeDefinitions, unresolved, idx, exc, ret>>

Driver == ResolveTypeDefinitions \/ BeginPass \/ ResolveNext \/ EndPass \/ Finish
(***************************************************************************)
(* The documents of the model: the top-level elements a schema document    *)
(* may hold.                                                               *)
(***************************************************************************)
\* A mixed document: simple types by restriction, by list and without a
\* form, complex types with and without a content wrapper; the names
\* include those of built-in definitions of both kinds.
MixedSimpleNodes ==
    {RestrictionNode(n, b) : n \in {"A", "string"},
                             b \in {"A", "string", "token", "anySimpleType"}}
    \cup {RestrictionNode("anyType", "string"), ListNode("B", "A"),
          EmptySimpleNode("A")}

MixedComplexNodes ==
    {ComplexNode(n, "none", "none", NoAttr) : n \in {"A", "anyType"}}
    \cup {ComplexNode("A", "sequence", "none", NoAttr)}
    \cup {ComplexNode(n, "complexContent", "restriction", "anyType") :
             n \in {"A", "string"}}
    \cup {ComplexNode("B", "simpleContent", "extension", "A")}

Next ==
    \/ SimpleTypeFromDOM(MixedSimpleNodes)
    \/ ComplexTypeFromDOM(MixedComplexNodes)
    \/ AddTypeDefinition
    \/ Driver

Spec == Init /\ [][Next]_vars

\* Documents of simple types defined by restriction only.
RestrictionNodes ==
    {RestrictionNode(n, b) : n \in SchemaNames,
                             b \in SchemaNames \cup {"string", "token"}}

NextRestriction ==
    \/ SimpleTypeFromDOM(RestrictionNodes)
    \/ AddTypeDefinition
    \/ Driver

SpecRestriction == Init /\ [][NextRestriction]_vars

\* _resolveTypeDefinitions is straight-line code run by one thread: once
\* called, each of its steps is taken.
FairSpecRestriction == SpecRestriction /\ WF_vars(Driver)

\* Documents of list types and of the restrictions they may name as item
\* types.
ListNodes ==
    {ListNode(n, t) : n \in {"A", "B"}, t \in {"A", "B", "string"}}
    \cup {RestrictionNode(n, b) : n \in SchemaNames, b \in {"C", "string"}}

NextList ==
    \/ SimpleTypeFromDOM(ListNodes)
    \/ AddTypeDefinition
    \/ Driver

SpecList == Init /\ [][NextList]_vars
(***************************************************************************)
(* The factories called one after another: the two ur-type singletons,     *)
(* the built-in instances and the codecs handed to them, definitions made  *)
(* from elements and resolved one at a time.  Nothing is registered here.  *)
(***************************************************************************)
\* The number of definitions the caller makes.
MaxObjects == 4

\* Before the bootstrap: no singleton, no definition, an empty registry.
InitFactory ==
    /\ heap = EmptyWorld.heap
    /\ psts = EmptyWorld.psts
    /\ UrType = EmptyWorld.UrType
    /\ SimpleUrType = EmptyWorld.SimpleUrType
    /\ typeDefinitions = EmptyWorld.typeDefinitions
    /\ unresolvedTypeDefinitions = EmptyWorld.unresolvedTypeDefinitions
    /\ exc = NoExc
    /\ ret = None
    /\ pc = "scan"
    /\ unresolved = <<>>
    /\ idx = 0
    /\ call = <<"Schema">>

\* One call of the caller: the variables take the values of the world the
\* call leaves; an exception ends the run.
Called(w) ==
    /\ pc = "scan"
    /\ Len(w.heap) <= MaxObjects
    /\ Becomes(w, "scan")
    /\ UNCHANGED <<unresolved, idx>>

\* The arguments a caller has at hand: a namespace or none, a simple type
\* definition or None, a codec.
Namespaces == {"xs", Unset}
SimpleTypes == {o \in 1..Len(heap) : heap[o].cls = STD} \cup {None}
\* A codec argument: None, the first codec made so far, or one made for
\* this call.
Codecs ==
    {"None", "PythonSimpleTypeSupport()"}
        \cup (IF psts = <<>> THEN {} ELSE {"first"})
\* The world in which the codec argument has been evaluated, and its value.
WithCodec(w, python_support) ==
    IF python_support = "None" THEN Return(w, None)
    ELSE IF python_support = "first" THEN Return(w, 1)
    ELSE NewPSTS(w)

\* Elements that resolve without a name lookup: a restriction without a
\* base attribute and a union without members.
FactoryNodes == {RestrictionNode("A", NoAttr), UnionNode("B", 0, NoAttr)}

CallUrTypeDefinition ==
    \E xs_namespace \in Namespaces :
        /\ Called(UrTypeDefinition(World, xs_namespace))
        /\ call' = <<"UrTypeDefinition", xs_namespace>>

CallSimpleUrTypeDefinition ==
    \E xs_namespace \in Namespaces :
        /\ Called(SimpleUrTypeDefinition(World, xs_namespace))
        /\ call' = <<"SimpleUrTypeDefinition", xs_namespace>>

CallCreatePrimitiveInstance ==
    \E python_support \in Codecs :
        /\ \E w \in {Then(WithCodec(World, python_support), LAMBDA w1 :
                         CreatePrimitiveInstance(w1, "string", w1.ret))} :
              Called(w)
        /\ call' = <<"CreatePrimitiveInstance", python_support>>

CallCreateDerivedInstance ==
    \E parent_std \in SimpleTypes, python_support \in Codecs :
        /\ \E w \in {Then(WithCodec(World, python_support), LAMBDA w1 :
                         CreateDerivedInstance(w1, "token", parent_std,
                                               w1.ret))} : Called(w)
        /\ call' = <<"CreateDerivedInstance", parent_std, python_support>>

CallCreateListInstance ==
    \E item_std \in SimpleTypes :
        /\ \E w \in {CreateListInstance(World, "NMTOKENS", item_std)} :
              Called(w)
        /\ call' = <<"CreateListInstance", item_std>>

CallCreateFromDOM ==
    \E node \in FactoryNodes :
        /\ \E w \in {STD_CreateFromDOM(World, node)} : Called(w)
        /\ call' = <<"CreateFromDOM">>

\* std._resolve() on any definition made so far.
CallResolve ==
    \E std \in 1..Len(heap) :
        /\ \E w \in {_resolve(World, std)} : Called(w)
        /\ call' = <<"_resolve", std>>

NextFactory ==
    \/ CallUrTypeDefinition
    \/ CallSimpleUrTypeDefinition
    \/ CallCreatePrimitiveInstance
    \/ CallCreateDerivedInstance
    \/ CallCreateListInstance
    \/ CallCreateFromDOM
    \/ CallResolve

SpecFactory == InitFactory /\ [][NextFactory]_vars

(***************************************************************************)
(* The construction of primitive and schema-defined simple types together  *)
(* with direct calls of _setPythonSupport on the simple types made so far. *)
(***************************************************************************)
\* The number of codecs up to which the caller binds codecs directly.
MaxCodecs == 2
\* std._setPythonSupport(python_support) on a simple type the caller holds.
CallSetPythonSupport ==
    \E std \in SimpleTypes \ {None}, python_support \in Codecs :
        /\ \E w \in {Then(WithCodec(World, python_support), LAMBDA w1 :
                         _setPythonSupport(w1, std, w1.ret))} :
              Len(w.psts) <= MaxCodecs /\ Called(w)
        /\ call' = <<"_setPythonSupport", std, python_support>>

NextCodec ==
    \/ CallUrTypeDefinition
    \/ CallSimpleUrTypeDefinition
    \/ CallCreatePrimitiveInstance
    \/ CallCreateFromDOM
    \/ CallSetPythonSupport

SpecCodec == InitFactory /\ [][NextCodec]_vars
(***************************************************************************)
(* Documents of restrictions read and registered, with lookups by name     *)
(* between the caller's steps.                                             *)
(***************************************************************************)
\* The caller asks the schema for the definition of a name.
CallLookupTypeDefinition ==
    /\ pc = "scan"
    /\ \E local_name \in Names :
          /\ ret' = _lookupTypeDefinition(World, local_name)
          /\ call' = <<"_lookupTypeDefinition", local_name>>
    /\ exc' = NoExc
    /\ UNCHANGED <<heap, psts, UrType, SimpleUrType, typeDefinitions,
                   unresolvedTypeDefinitions, pc, unresolved, idx>>

NextLookup ==
    \/ SimpleTypeFromDOM(RestrictionNodes)
    \/ AddTypeDefinition
    \/ CallLookupTypeDefinition
    \/ Driver

SpecLookup == Init /\ [][NextLookup]_vars
(***************************************************************************)
(* Particles constructed by a caller, one per step.                        *)
(***************************************************************************)
\* The largest occurrence count the caller passes.
MaxOccurs == 4

\* The terms a particle may hold.
Terms == {"wildcard", "element", "sequence", "choice"}

\* Particle(term, min_occurs, max_occurs): ret is the particle when the
\* constructor returns.
ConstructParticle ==
    /\ pc = "scan"
    /\ \E term \in Terms, min_occurs \in (-1)..MaxOccurs,
          max_occurs \in {Unbounded} \cup (0..MaxOccurs) :
          /\ \E p \in {Particle(term, min_occurs, max_occurs)} :
                /\ exc' = p.exc
                /\ ret' = IF p.exc = NoExc THEN p ELSE NoneRec
          /\ call' = <<"Particle", term, min_occurs, max_occurs>>
    /\ UNCHANGED <<heap, psts, UrType, SimpleUrType, typeDefinitions,
                   unresolvedTypeDefinitions, pc, unresolved, idx>>

NextParticle == ConstructParticle

SpecParticle == InitFactory /\ [][NextParticle]_vars
(***************************************************************************)
(* Documents whose simpleType elements carry two or three of the forms     *)
(* list, restriction, union, with the restrictions they may name as base,  *)
(* and complexType elements whose content wrapper holds a restriction or   *)
(* extension with or without a base attribute.                             *)
(***************************************************************************)
\* <simpleType name=n> with l list, r restriction (base=b) and u union
\* children; the list names the built-in string as its item type.
FormsNode(n, l, r, u, b) ==
    [EmptySimpleNode(n) EXCEPT
        !.nList = l, !.itemType = IF l = 0 THEN NoAttr ELSE "string",
        !.nRestriction = r, !.base = IF r = 0 THEN NoAttr ELSE b,
        !.nUnion = u]

FormSimpleNodes ==
    {FormsNode("A", f[1], f[2], f[3], b) :
        f \in {<<1, 1, 0>>, <<1, 0, 1>>, <<0, 1, 1>>, <<1, 1, 1>>},
        b \in {"string", "B"}}
    \cup {RestrictionNode("B", b) : b \in {"string", "B"}}
    \cup {RestrictionNode("A", "B")}

FormComplexNodes ==
    {ComplexNode("C", c, i, b) :
        c \in {"simpleContent", "complexContent"},
        i \in {"restriction", "extension"},
        b \in {NoAttr, "B", "C"}}
    \cup {AbstractNode(ComplexNode("C", "complexContent", "extension", b)) :
             b \in {NoAttr, "B"}}

NextForms ==
    \/ SimpleTypeFromDOM(FormSimpleNodes)
    \/ ComplexTypeFromDOM(FormComplexNodes)
    \/ AddTypeDefinition
    \/ Driver

SpecForms == Init /\ [][NextForms]_vars
(***************************************************************************)
(* Documents of union types (with nested simpleType members) and of the    *)
(* restrictions of built-in, list and union types.                         *)
(***************************************************************************)
UnionNodes ==
    {UnionNode("A", k, b) : k \in 0..2, b \in {"string", NoAttr}}
    \cup {MemberTypesNode("A")}
    \cup {RestrictionNode("B", b) :
             b \in {"A", "string", "NMTOKENS", "anySimpleType", NoAttr}}

NextUnion ==
    \/ SimpleTypeFromDOM(UnionNodes)
    \/ AddTypeDefinition
    \/ Driver

SpecUnion == Init /\ [][NextUnion]_vars
(***************************************************************************)
(* Vocabulary of the properties.                                           *)
(***************************************************************************)
Objects == 1..Len(heap)
Resolved(o) == isResolved(World, o)
Queued(o) == InList(unresolvedTypeDefinitions, o)
HasNode(o) == heap[o].domNode # NoneRec
Registered(o) ==
    heap[o].name \in Names /\ typeDefinitions[heap[o].name] = o
\* o is one of the definitions the bootstrap made.
IsBuiltin(o) == o \in Builtins
\* o was made from a named element and lost its place in the name table to
\* the built-in definition that absorbed its node.
Discarded(o) ==
    HasNode(o) /\ ~IsBuiltin(o) /\ heap[o].name # NoName /\ ~Registered(o)
\* The definition the for loop of _resolveTypeDefinitions is about to
\* resolve.
Resolving == pc = "for" /\ idx <= Len(unresolved)
Target == unresolved[idx]
\* The definition the caller is about to register, and the one its name
\* maps to.
Registering == pc = "made"
Made == Len(heap)
Old == typeDefinitions[heap[Made].name]
\* A simpleType element with the restriction form only and a base attribute.
IsRestrictionNode(node) ==
    /\ node.tag = "simpleType"
    /\ node.nList = 0 /\ node.nUnion = 0 /\ node.nRestriction = 1
    /\ node.base # NoAttr
\* A simpleType element with the list form only and an itemType attribute.
IsListNode(node) ==
    /\ node.tag = "simpleType"
    /\ node.nList = 1 /\ node.nUnion = 0 /\ node.nRestriction = 0
    /\ node.itemType # NoAttr
\* The definition registered under the name, None for an undeclared name.
Declared(name) == IF name \in Names THEN typeDefinitions[name] ELSE None

(***************************************************************************)
(* C3.  _resolveTypeDefinitions always terminates: no pass and no step of  *)
(* a resolution runs forever (pc is "hung" where a call has entered a loop *)
(* that never ends).                                                       *)
(***************************************************************************)
C3_Terminates == pc # "hung"

(***************************************************************************)
(* C4.  When _resolveTypeDefinitions returns without raising, every type   *)
(* definition that was placed in the unresolved queue (and was not         *)
(* discarded in favour of a built-in definition) is resolved.              *)
(***************************************************************************)
C4_ReturnedAllResolved ==
    pc = "returned" =>
        \A o \in Objects : (HasNode(o) /\ ~Discarded(o)) => Resolved(o)

(***************************************************************************)
(* C7.  _resolve on an unresolved complex type whose base type (the        *)
(* ur-type when the element has no simpleContent/complexContent wrapper,   *)
(* the named base otherwise) is resolved leaves the type resolved, with    *)
(* that base type, with content type, attribute uses and attribute         *)
(* wildcard set, and not in the unresolved queue.                          *)
(***************************************************************************)
C7_Base(o) ==
    IF heap[o].domNode.firstElt \in {"simpleContent", "complexContent"}
    THEN IF heap[o].domNode.ions \in {"restriction", "extension"}
         THEN Declared(heap[o].domNode.base) ELSE None
    ELSE IF heap[o].domNode.firstElt = "none" THEN None ELSE UrType

C7_Case ==
    /\ Resolving
    /\ heap[Target].cls = CTD /\ ~Resolved(Target) /\ HasNode(Target)
    /\ ~IsBuiltin(Target)
    /\ C7_Base(Target) # None
    /\ Resolved(C7_Base(Target))

C7_ResolveCompletes ==
    [][C7_Case =>
          /\ pc' = "for"
          /\ heap'[Target].derivationMethod # Unset
          /\ heap'[Target].baseTypeDefinition = C7_Base(Target)
          /\ heap'[Target].contentType # NoneRec
          /\ heap'[Target].attributeUses # NoneRec
          /\ heap'[Target].attributeWildcard # NoneRec
          /\ ~InList(unresolvedTypeDefinitions', Target)]_vars

(***************************************************************************)
(* C8.  _resolve on a schema-defined complexType element without children  *)
(* resolves it: derivation method restriction, base type the ur-type,      *)
(* content type empty.                                                     *)
(***************************************************************************)
C8_Case ==
    /\ Resolving
    /\ heap[Target].cls = CTD /\ ~Resolved(Target) /\ HasNode(Target)
    /\ ~IsBuiltin(Target)
    /\ heap[Target].domNode.firstElt = "none"

C8_EmptyComplexResolves ==
    [][C8_Case =>
          /\ pc' = "for"
          /\ heap'[Target].derivationMethod = DM_restriction
          /\ heap'[Target].baseTypeDefinition = UrType
          /\ heap'[Target].contentType = [type |-> CT_EMPTY]]_vars

(***************************************************************************)
(* C9.  The primitive type definition of a resolved atomic simple type     *)
(* whose base-type chain is resolved is the last atomic definition on that *)
(* chain (the one whose own base is not atomic).                           *)
(***************************************************************************)
RECURSIVE LastAtomic(_, _)
LastAtomic(o, fuel) ==
    IF fuel = 0 \/ heap[o].baseTypeDefinition = None
    THEN o
    ELSE IF heap[heap[o].baseTypeDefinition].cls # STD
    THEN o
    ELSE IF heap[heap[o].baseTypeDefinition].variety # VARIETY_atomic
    THEN o
    ELSE LastAtomic(heap[o].baseTypeDefinition, fuel - 1)

RECURSIVE ChainResolved(_, _)
ChainResolved(o, fuel) ==
    \/ fuel = 0
    \/ /\ Resolved(o)
       /\ \/ heap[o].baseTypeDefinition \in {None, o}
          \/ ChainResolved(heap[o].baseTypeDefinition, fuel - 1)

C9_PrimitiveIsLastAtomic ==
    pc \notin {"raised", "hung"} =>
        \A o \in Objects :
            (/\ heap[o].cls = STD /\ heap[o].variety = VARIETY_atomic
             /\ ChainResolved(o, Len(heap)))
                => heap[o].primitiveTypeDefinition = LastAtomic(o, Len(heap))

(***************************************************************************)
(* C5.  _addTypeDefinition of a newly made (unresolved, queued) definition *)
(* whose name maps to a built-in definition of the same kind returns the   *)
(* built-in, leaves the name table as it was, takes the new definition out *)
(* of the unresolved queue and puts the built-in in it exactly once; the   *)
(* built-in is then unresolved, holds the new definition's node and keeps  *)
(* its codec binding.                                                      *)
(***************************************************************************)
Count(q, x) == Cardinality({i \in 1..Len(q) : q[i] = x})

C5_Case ==
    /\ Registering
    /\ heap[Made].name # NoName
    /\ ~Resolved(Made) /\ Queued(Made)
    /\ Old # None
    /\ IsBuiltin(Old)
    /\ heap[Old].cls = heap[Made].cls

C5_AbsorbedIntoBuiltin ==
    [][C5_Case =>
          /\ pc' = "scan"
          /\ ret' = Old
          /\ typeDefinitions' = typeDefinitions
          /\ ~InList(unresolvedTypeDefinitions', Made)
          /\ Count(unresolvedTypeDefinitions', Old) = 1
          /\ heap'[Old].domNode = heap[Made].domNode
          /\ IF heap[Old].cls = STD
             THEN /\ heap'[Old].variety = Unset
                  /\ heap'[Old].pythonSupport = heap[Old].pythonSupport
                  /\ psts' = psts
             ELSE heap'[Old].derivationMethod = Unset]_vars

(***************************************************************************)
(* C6.  _addTypeDefinition of a definition whose name maps to a definition *)
(* of the other kind raises SchemaValidationError and changes neither the  *)
(* name table nor the registered definition (its fields, its codec, its    *)
(* place in or out of the unresolved queue); and no step ever changes the  *)
(* kind of the definition a name maps to.                                  *)
(***************************************************************************)
C6_Case ==
    /\ Registering
    /\ heap[Made].name # NoName
    /\ Old # None
    /\ heap[Old].cls # heap[Made].cls

C6_KindMismatchRejected ==
    [][/\ C6_Case =>
             /\ pc' = "raised"
             /\ exc' = SchemaValidationError
             /\ typeDefinitions' = typeDefinitions
             /\ heap'[Old] = heap[Old]
             /\ psts' = psts
             /\ InList(unresolvedTypeDefinitions', Old) = Queued(Old)
       /\ \A n \in Names :
             typeDefinitions[n] # None =>
                 /\ typeDefinitions'[n] # None
                 /\ heap'[typeDefinitions'[n]].cls
                        = heap[typeDefinitions[n]].cls]_vars

\* A registration was rejected for its kind; the registered definition of
\* that name is a resolved one outside the queue.
C6_Witness ==
    /\ pc = "raised"
    /\ exc = SchemaValidationError
    /\ unresolved = <<>>
    /\ heap[Made].name \in Names
    /\ Old # None
    /\ heap[Old].cls # heap[Made].cls
    /\ Resolved(Old)
    /\ ~Queued(Old)

(***************************************************************************)
(* C1.  A document whose definitions are all simple types by restriction,  *)
(* each registered under its name, whose chains of named bases are acyclic *)
(* and end at resolved built-in simple types: _resolveTypeDefinitions      *)
(* returns without raising, whatever the order of the queue, and then each *)
(* definition is resolved, its base type is the definition its base        *)
(* attribute names and its variety is that of its base.                    *)
(***************************************************************************)
RECURSIVE RestrictsToBuiltin(_, _)
RestrictsToBuiltin(o, fuel) ==
    /\ fuel > 0
    /\ heap[o].cls = STD
    /\ ~IsBuiltin(o)
    /\ HasNode(o)
    /\ IsRestrictionNode(heap[o].domNode)
    /\ Registered(o)
    /\ Declared(heap[o].domNode.base) # None
    /\ heap[Declared(heap[o].domNode.base)].cls = STD
    /\ IF IsBuiltin(Declared(heap[o].domNode.base))
       THEN /\ ~HasNode(Declared(heap[o].domNode.base))
            /\ Resolved(Declared(heap[o].domNode.base))
       ELSE RestrictsToBuiltin(Declared(heap[o].domNode.base), fuel - 1)

SchemaDefined == {o \in Objects : HasNode(o)}
InResolveTypeDefinitions == pc \in {"while", "for", "returned", "raised", "hung"}

C1_Case ==
    /\ InResolveTypeDefinitions
    /\ SchemaDefined # {}
    /\ \A o \in SchemaDefined : RestrictsToBuiltin(o, Len(heap))

C1_Safe ==
    C1_Case =>
        /\ pc \notin {"raised", "hung"}
        /\ pc = "returned" =>
              \A o \in SchemaDefined :
                  /\ Resolved(o)
                  /\ heap[o].baseTypeDefinition = Declared(heap[o].domNode.base)
                  /\ heap[o].variety
                         = heap[Declared(heap[o].domNode.base)].variety

C1_AcyclicRestrictionsResolve ==
    /\ []C1_Safe
    /\ C1_Case ~> (pc = "returned")

\* The run has returned, and a definition was queued before the schema
\* definition it restricts (so that its first _resolve deferred).
C1_Witness ==
    /\ pc = "returned"
    /\ C1_Case
    /\ \E o1, o2 \in SchemaDefined :
          o1 < o2 /\ Declared(heap[o1].domNode.base) = o2

(***************************************************************************)
(* C2.  Two simple types that restrict each other are never resolved, the  *)
(* run never returns normally, and the non-convergence error, when raised, *)
(* is raised with both in the unresolved queue; with every base declared   *)
(* the run does end in that error.                                         *)
(***************************************************************************)
RestrictsByName(a, b) ==
    /\ heap[a].cls = STD
    /\ ~IsBuiltin(a)
    /\ HasNode(a)
    /\ IsRestrictionNode(heap[a].domNode)
    /\ Registered(a)
    /\ heap[a].domNode.base = heap[b].name

Mutual(a, b) == a # b /\ RestrictsByName(a, b) /\ RestrictsByName(b, a)

MutualPairs == {p \in Objects \X Objects : Mutual(p[1], p[2])}

AllBasesDeclared ==
    \A o \in SchemaDefined :
        /\ IsRestrictionNode(heap[o].domNode)
        /\ Declared(heap[o].domNode.base) # None

C2_Safe ==
    \A p \in MutualPairs :
        /\ ~Resolved(p[1])
        /\ ~Resolved(p[2])
        /\ pc # "returned"
        /\ (pc = "raised" /\ exc = InfiniteLoop) =>
               (Queued(p[1]) /\ Queued(p[2]))

C2_MutualRestrictionRaises ==
    /\ []C2_Safe
    /\ (pc = "while" /\ MutualPairs # {} /\ AllBasesDeclared)
           ~> (pc = "raised" /\ exc = InfiniteLoop)

C2_Witness ==
    /\ pc = "raised"
    /\ exc = InfiniteLoop
    /\ MutualPairs # {}
    /\ \A p \in MutualPairs : Queued(p[1]) /\ Queued(p[2])

(***************************************************************************)
(* C10 as stated.  A list type whose itemType names a registered simple    *)
(* type T is resolved only once T is resolved.                             *)
(***************************************************************************)
ListTypes ==
    {o \in Objects : /\ heap[o].cls = STD
                     /\ ~IsBuiltin(o)
                     /\ HasNode(o)
                     /\ IsListNode(heap[o].domNode)
                     /\ Declared(heap[o].domNode.itemType) # None
                     /\ heap[Declared(heap[o].domNode.itemType)].cls = STD}
ItemType(o) == Declared(heap[o].domNode.itemType)

C10_ListAfterItem ==
    \A o \in ListTypes : Resolved(o) => Resolved(ItemType(o))

(***************************************************************************)
(* C10.  _resolve on an unresolved list type whose itemType names a        *)
(* registered simple type T resolves it at once, whether or not T is       *)
(* resolved: variety list, item type T, base type the simple ur-type, and  *)
(* the list type is not put back in the queue.                             *)
(***************************************************************************)
C10_Case == Resolving /\ Target \in ListTypes /\ ~Resolved(Target)

C10_ListResolvesAtOnce ==
    [][C10_Case =>
          /\ pc' = "for"
          /\ heap'[Target].variety = VARIETY_list
          /\ heap'[Target].itemTypeDefinition = ItemType(Target)
          /\ heap'[Target].baseTypeDefinition = SimpleUrType
          /\ ~InList(unresolvedTypeDefinitions', Target)]_vars

\* A list type is resolved while its item type is not.
C10_Witness ==
    \E o \in ListTypes :
        /\ heap[o].variety = VARIETY_list
        /\ heap[o].itemTypeDefinition = ItemType(o)
        /\ ItemType(o) # o
        /\ ~Resolved(ItemType(o))

(***************************************************************************)
(* C11 as stated.  Once the variety of a simple type definition is set, no *)
(* step unsets or changes it.                                              *)
(***************************************************************************)
C11_VarietyNeverChanges ==
    [][\A o \in Objects :
          (heap[o].cls = STD /\ heap[o].variety # Unset)
              => heap'[o].variety = heap[o].variety]_vars

(***************************************************************************)
(* C11.  The variety of a simple type definition, once set, is changed by  *)
(* one step only: an _addTypeDefinition that absorbs a same-named new      *)
(* definition into it unsets it; every other step leaves it as it is.      *)
(***************************************************************************)
Absorbing(o) ==
    /\ Registering
    /\ heap[Made].name # NoName
    /\ Old = o
    /\ exc' = NoExc

C11_VarietyUnsetOnlyByAbsorption ==
    [][\A o \in Objects :
          (heap[o].cls = STD /\ heap[o].variety # Unset)
              => heap'[o].variety
                     = IF Absorbing(o) THEN Unset ELSE heap[o].variety]_vars

\* A built-in simple type was absorbed and resolved again, to a variety
\* other than the one the bootstrap gave it.
C11_Witness ==
    \E o \in Builtins :
        /\ heap[o].cls = STD
        /\ HasNode(o)
        /\ heap[o].variety # Unset
        /\ heap[o].variety # Bootstrap.heap[o].variety

(***************************************************************************)
(* C12.  No step changes a field of the ur-type or of the simple ur-type,  *)
(* and both stay resolved.                                                 *)
(***************************************************************************)
C12_UrTypesImmutable ==
    [][/\ UrType' = UrType
       /\ SimpleUrType' = SimpleUrType
       /\ heap'[UrType] = heap[UrType]
       /\ heap'[SimpleUrType] = heap[SimpleUrType]
       /\ heap'[UrType].derivationMethod # Unset
       /\ heap'[SimpleUrType].variety # Unset]_vars

(***************************************************************************)
(* C18.  Following base type links from a resolved atomic simple type      *)
(* reaches a definition that is not atomic: no cycle of atomic             *)
(* definitions.                                                            *)
(***************************************************************************)
RECURSIVE ReachesNonAtomic(_, _)
ReachesNonAtomic(o, fuel) ==
    IF heap[o].cls # STD THEN TRUE
    ELSE IF heap[o].variety # VARIETY_atomic THEN TRUE
    ELSE /\ fuel > 0
         /\ heap[o].baseTypeDefinition # None
         /\ ReachesNonAtomic(heap[o].baseTypeDefinition, fuel - 1)

C18_BaseChainsLeaveAtomic ==
    \A o \in Objects :
        (heap[o].cls = STD /\ heap[o].variety = VARIETY_atomic)
            => ReachesNonAtomic(o, Len(heap))
(***************************************************************************)
(* C13: over any sequence of calls of UrTypeDefinition at most one ur-type *)
(* instance is constructed: the first call with a namespace constructs it, *)
(* a later call without a namespace returns that instance and constructs   *)
(* nothing, and after every step the singleton's base type is itself and   *)
(* its derivation method is restriction.                                   *)
(***************************************************************************)
\* The ur-type instances constructed so far: the complex type definitions
\* that were not made from an element.
UrInstances == {o \in Objects : heap[o].cls = CTD /\ ~HasNode(o)}
\* The last step called the factory named op.
LastCall(op) == call[1] = op
C13_OneUrType ==
    [][/\ Cardinality(UrInstances') <= 1
       /\ UrType' # None =>
             /\ UrInstances' = {UrType'}
             /\ heap'[UrType'].baseTypeDefinition = UrType'
             /\ heap'[UrType'].derivationMethod = DM_restriction
       /\ (LastCall("UrTypeDefinition")' /\ call'[2] = "xs" /\ UrType = None)
             => exc' = NoExc /\ UrType' # None /\ ret' = UrType'
       /\ (LastCall("UrTypeDefinition")' /\ call'[2] = Unset /\ UrType # None)
             => /\ exc' = NoExc /\ ret' = UrType
                /\ UrType' = UrType /\ heap' = heap]_vars

\* A later call without a namespace has returned the singleton.
C13_Witness ==
    /\ LastCall("UrTypeDefinition") /\ call[2] = Unset
    /\ exc = NoExc /\ UrType # None /\ ret = UrType
    /\ Len(heap) > 1

(***************************************************************************)
(* C14: UrTypeDefinition or SimpleUrTypeDefinition called with a namespace *)
(* when its singleton exists raises LogicError and leaves the singleton    *)
(* and every definition as they were; either called without a namespace    *)
(* before its singleton exists fails (an assertion) and constructs         *)
(* nothing.                                                                *)
(***************************************************************************)
C14_Frame == heap' = heap /\ psts' = psts /\ UrType' = UrType
                 /\ SimpleUrType' = SimpleUrType
C14_SingletonMisuseRaises ==
    [][/\ (LastCall("UrTypeDefinition")' /\ call'[2] = "xs" /\ UrType # None)
             => exc' = LogicError /\ C14_Frame
       /\ (LastCall("SimpleUrTypeDefinition")' /\ call'[2] = "xs"
              /\ SimpleUrType # None)
             => exc' = LogicError /\ C14_Frame
       /\ (LastCall("UrTypeDefinition")' /\ call'[2] = Unset /\ UrType = None)
             => exc' = AssertionError /\ C14_Frame
       /\ (LastCall("SimpleUrTypeDefinition")' /\ call'[2] = Unset
              /\ SimpleUrType = None)
             => exc' = AssertionError /\ C14_Frame]_vars

\* The simple ur-type factory has been given a namespace a second time.
C14_Witness ==
    /\ LastCall("SimpleUrTypeDefinition") /\ call[2] = "xs"
    /\ exc = LogicError
    /\ SimpleUrType # None /\ heap[SimpleUrType].variety = VARIETY_absent
(***************************************************************************)
(* C16: CreateDerivedInstance with a parent B of variety absent or atomic  *)
(* (and a codec of its own) returns a new resolved built-in definition D   *)
(* whose base type is B, whose variety is B's and whose primitive type is  *)
(* B's when that variety is atomic and unset otherwise; with no parent,    *)
(* an unresolved parent or a parent of list or union variety the call      *)
(* fails and no definition is created.                                     *)
(***************************************************************************)
\* B may be derived from.
Derivable(B) ==
    B # None /\ heap[B].variety \in {VARIETY_absent, VARIETY_atomic}
C16_DerivedFromParent ==
    [][LastCall("CreateDerivedInstance")' =>
          LET B == call'[2]
              D == Len(heap) + 1
          IN  IF Derivable(B)
              THEN call'[3] = "PythonSimpleTypeSupport()" =>
                      /\ exc' = NoExc /\ ret' = D /\ Len(heap') = D
                      /\ \A o \in Objects : heap'[o] = heap[o]
                      /\ heap'[D].cls = STD
                      /\ heap'[D].variety # Unset
                      /\ heap'[D].isBuiltin
                      /\ heap'[D].baseTypeDefinition = B
                      /\ heap'[D].variety = heap[B].variety
                      /\ heap'[D].primitiveTypeDefinition
                            = IF heap[B].variety = VARIETY_atomic
                              THEN heap[B].primitiveTypeDefinition ELSE None
              ELSE exc' = AssertionError /\ heap' = heap]_vars

\* A definition derived from an atomic parent shares the parent's
\* primitive type.
C16_Witness ==
    /\ LastCall("CreateDerivedInstance") /\ exc = NoExc
    /\ ret = Len(heap)
    /\ heap[ret].variety = VARIETY_atomic
    /\ heap[ret].primitiveTypeDefinition # None
    /\ heap[ret].primitiveTypeDefinition
          = heap[heap[ret].baseTypeDefinition].primitiveTypeDefinition

(***************************************************************************)
(* C17: _resolve called on a definition that is resolved already returns   *)
(* it and changes nothing: every field of every definition, the unresolved *)
(* queue and the name table are as before.                                 *)
(***************************************************************************)
C17_ResolveResolvedIsNoOp ==
    [][(LastCall("_resolve")' /\ Resolved(call'[2])) =>
          /\ exc' = NoExc /\ ret' = call'[2]
          /\ heap' = heap /\ psts' = psts
          /\ typeDefinitions' = typeDefinitions
          /\ unresolvedTypeDefinitions' = unresolvedTypeDefinitions
          /\ UrType' = UrType /\ SimpleUrType' = SimpleUrType]_vars

\* _resolve has been called on a built-in simple type, which was resolved
\* when it was made and has no element to resolve from.
C17_Witness ==
    /\ LastCall("_resolve") /\ exc = NoExc
    /\ heap[call[2]].cls = STD /\ ~HasNode(call[2])
    /\ heap[call[2]].variety = VARIETY_atomic
(***************************************************************************)
(* C19: _lookupTypeDefinition(local_name) returns the definition that is   *)
(* registered under the name, or None when there is none, and changes      *)
(* nothing: the name table, the unresolved queue and every definition      *)
(* (resolved or not) are as before the call.                               *)
(***************************************************************************)
C19_LookupReturnsRegistered ==
    [][LastCall("_lookupTypeDefinition")' =>
          /\ exc' = NoExc
          /\ ret' = typeDefinitions[call'[2]]
          /\ (ret' # None => heap[ret'].name = call'[2])
          /\ (ret' = None =>
                 \A o \in Objects : ~(Registered(o) /\ heap[o].name = call'[2]))
          /\ typeDefinitions' = typeDefinitions
          /\ unresolvedTypeDefinitions' = unresolvedTypeDefinitions
          /\ heap' = heap]_vars

\* A lookup has returned a schema-defined definition that is still
\* unresolved and queued.
C19_Witness ==
    /\ LastCall("_lookupTypeDefinition") /\ exc = NoExc
    /\ ret # None /\ ~IsBuiltin(ret)
    /\ ~Resolved(ret) /\ Queued(ret)
(***************************************************************************)
(* C15: every built-in primitive that is resolved is its own primitive     *)
(* type and has the simple ur-type as its base type, also after it has     *)
(* absorbed a schema definition of its name and has been resolved again.   *)
(***************************************************************************)
\* The definitions the bootstrap made with CreatePrimitiveInstance.
Primitives ==
    {o \in Builtins : /\ Bootstrap.heap[o].cls = STD
                      /\ Bootstrap.heap[o].primitiveTypeDefinition = o}
\* (Stated for the states in which no call has failed or hung.)
C15_PrimitiveKeepsBase ==
    pc \notin {"raised", "hung"} =>
        \A P \in Primitives :
            Resolved(P) => /\ heap[P].primitiveTypeDefinition = P
                           /\ heap[P].baseTypeDefinition = SimpleUrType
(***************************************************************************)
(* C20: every particle the constructor returns has minOccurs >= 0 and      *)
(* maxOccurs either None (unbounded) or at least minOccurs; a construction *)
(* with a maxOccurs that is not None and smaller than minOccurs raises.    *)
(***************************************************************************)
C20_ParticleBounds ==
    LastCall("Particle") =>
        IF call[4] # Unbounded /\ call[4] < call[3]
        THEN exc = LogicError
        ELSE /\ exc = NoExc
             /\ ret.minOccurs >= 0
             /\ ret.maxOccurs = Unbounded \/ ret.maxOccurs >= ret.minOccurs
(***************************************************************************)
(* C21: handing a codec that is bound to a simple type to the construction *)
(* of a second simple type raises LogicError, and the codec is still bound *)
(* to the first simple type afterwards.                                    *)
(***************************************************************************)
\* The step hands the first codec, which is bound, to a factory that gets
\* as far as binding it.
C21_Rebinding ==
    /\ psts # <<>>
    /\ psts[1].simpleTypeDefinition # None
    /\ \/ LastCall("CreatePrimitiveInstance")' /\ call'[2] = "first"
       \/ /\ LastCall("CreateDerivedInstance")' /\ call'[3] = "first"
          /\ Derivable(call'[2])
C21_CodecBoundOnce ==
    [][C21_Rebinding =>
          /\ exc' = LogicError
          /\ psts'[1].simpleTypeDefinition = psts[1].simpleTypeDefinition
          /\ \A o \in Objects : heap'[o] = heap[o]]_vars

\* A second construction with the bound codec has failed; the codec's
\* simple type is the first one, not the one just constructed.
C21_Witness ==
    /\ LastCall("CreateDerivedInstance") /\ call[3] = "first"
    /\ exc = LogicError
    /\ psts[1].simpleTypeDefinition \in 1..(Len(heap) - 1)
    /\ heap[Len(heap)].pythonSupport = 1
(***************************************************************************)
(* C24: _resolve of a simple type whose element has none of the forms      *)
(* list, restriction, union raises nothing and leaves the type resolved as *)
(* a restriction of the simple ur-type: its variety is the simple          *)
(* ur-type's and its base type is the simple ur-type.                      *)
(***************************************************************************)
\* The element of o is a simpleType without any of the three forms.
HasNoForm(o) ==
    /\ heap[o].cls = STD /\ HasNode(o)
    /\ heap[o].domNode.nList = 0
    /\ heap[o].domNode.nRestriction = 0
    /\ heap[o].domNode.nUnion = 0
C24_NoFormResolvesToUrType ==
    [][(LastCall("_resolve")' /\ HasNoForm(call'[2]) /\ ~Resolved(call'[2]))
          => /\ exc' = NoExc
             /\ heap'[call'[2]].variety = heap[SimpleUrType].variety
             /\ heap'[call'[2]].baseTypeDefinition = SimpleUrType]_vars
(***************************************************************************)
(* C30: whenever _resolveTypeDefinitions raises the non-convergence error  *)
(* the unresolved queue is not empty and every definition in it is         *)
(* unresolved.                                                             *)
(***************************************************************************)
\* _resolveTypeDefinitions has raised 'Infinite loop resolving types'.
NonConvergence ==
    pc = "raised" /\ exc = InfiniteLoop /\ LastCall("_resolveTypeDefinitions")
C30_StuckAreUnresolved ==
    NonConvergence =>
        /\ unresolvedTypeDefinitions # <<>>
        /\ \A i \in 1..Len(unresolvedTypeDefinitions) :
              ~Resolved(unresolvedTypeDefinitions[i])
(***************************************************************************)
(* C22 as stated: _resolve on an unresolved type whose named base type (of *)
(* a simple restriction, or of the restriction or extension of a complex   *)
(* type's content) is registered but unresolved returns without raising,   *)
(* leaves the type unresolved with no field set, and has appended it to    *)
(* the unresolved queue exactly once.                                      *)
(***************************************************************************)
\* The base type the element of o names is registered and unresolved; a
\* simple type's element has the restriction form only.
C22_Case(o) ==
    /\ HasNode(o) /\ ~Resolved(o)
    /\ heap[o].domNode.base \in Names
    /\ typeDefinitions[heap[o].domNode.base] # None
    /\ ~Resolved(typeDefinitions[heap[o].domNode.base])
    /\ IF heap[o].cls = STD
       THEN /\ IsRestrictionNode(heap[o].domNode)
            /\ heap[typeDefinitions[heap[o].domNode.base]].cls = STD
       ELSE /\ heap[o].domNode.firstElt \in {"simpleContent", "complexContent"}
            /\ heap[o].domNode.ions \in {"restriction", "extension"}
\* The call returned and put o on the queue once more; nothing else moved.
C22_Deferred(o) ==
    /\ exc' = NoExc
    /\ ~Resolved(o)'
    /\ unresolvedTypeDefinitions' = Append(unresolvedTypeDefinitions, o)
    /\ typeDefinitions' = typeDefinitions
    /\ \A x \in Objects \ {o} : heap'[x] = heap[x]
C22_DeferralSetsNoField ==
    [][\A o \in Objects :
          (LastCall("_resolve")' /\ call'[2] = o /\ C22_Case(o))
              => C22_Deferred(o) /\ heap'[o] = heap[o]]_vars

(***************************************************************************)
(* C22: in that case _resolve returns without raising, the type is still   *)
(* unresolved and has been appended to the unresolved queue exactly once;  *)
(* no field of it is set except the abstract flag of a complex type whose  *)
(* element carries the abstract attribute, which is parsed before the base *)
(* is looked up.                                                           *)
(***************************************************************************)
C22_DeferralKeepsUnresolved ==
    [][\A o \in Objects :
          (LastCall("_resolve")' /\ call'[2] = o /\ C22_Case(o))
              => /\ C22_Deferred(o)
                 /\ IF heap[o].cls = STD
                    THEN heap'[o] = heap[o]
                    ELSE /\ [heap'[o] EXCEPT !.abstract = FALSE]
                                = [heap[o] EXCEPT !.abstract = FALSE]
                         /\ heap[o].domNode.abstract = NoAttr
                                => heap'[o] = heap[o]]_vars

\* A complex type has been deferred on its unresolved base and is queued
\* once.
C22_Witness ==
    /\ LastCall("_resolve") /\ exc = NoExc
    /\ heap[call[2]].cls = CTD /\ ~Resolved(call[2])
    /\ heap[call[2]].domNode.base \in Names
    /\ typeDefinitions[heap[call[2]].domNode.base] # None
    /\ ~Resolved(typeDefinitions[heap[call[2]].domNode.base])
    /\ Count(unresolvedTypeDefinitions, call[2]) = 1
(***************************************************************************)
(* C23: _resolve of a simple type whose element holds more than one of the *)
(* forms list, restriction, union raises SchemaValidationError, for every  *)
(* combination of two or three forms and whether the restriction's base    *)
(* type is resolved or not.                                                *)
(***************************************************************************)
\* The element of o has two or three of the forms (one child of each), and
\* the base its restriction names is a registered simple type.
C23_Case(o) ==
    /\ heap[o].cls = STD /\ HasNode(o) /\ ~Resolved(o)
    /\ heap[o].domNode.nList <= 1
    /\ heap[o].domNode.nRestriction <= 1
    /\ heap[o].domNode.nUnion <= 1
    /\ heap[o].domNode.nList + heap[o].domNode.nRestriction
          + heap[o].domNode.nUnion >= 2
    /\ heap[o].domNode.nRestriction = 1 =>
          /\ heap[o].domNode.base \in Names
          /\ typeDefinitions[heap[o].domNode.base] # None
          /\ heap[typeDefinitions[heap[o].domNode.base]].cls = STD
C23_SeveralFormsRejected ==
    [][\A o \in Objects :
          (LastCall("_resolve")' /\ call'[2] = o /\ C23_Case(o))
              => exc' = SchemaValidationError]_vars
(***************************************************************************)
(* C29: _resolve of a complex type whose simpleContent or complexContent   *)
(* wrapper holds a restriction or extension without a base attribute       *)
(* raises SchemaValidationError; the type is still unresolved and has not  *)
(* been appended to the unresolved queue.                                  *)
(***************************************************************************)
\* The element of o wraps a restriction or extension that names no base.
C29_Case(o) ==
    /\ heap[o].cls = CTD /\ HasNode(o) /\ ~Resolved(o)
    /\ heap[o].domNode.firstElt \in {"simpleContent", "complexContent"}
    /\ heap[o].domNode.ions \in {"restriction", "extension"}
    /\ heap[o].domNode.base = NoAttr
C29_MissingBaseRejected ==
    [][\A o \in Objects :
          (LastCall("_resolve")' /\ call'[2] = o /\ C29_Case(o))
              => /\ exc' = SchemaValidationError
                 /\ heap'[o].derivationMethod = Unset
                 /\ unresolvedTypeDefinitions' = unresolvedTypeDefinitions
                 /\ typeDefinitions' = typeDefinitions]_vars

\* The resolution of such a type has raised; the type is unresolved and not
\* in the queue.
C29_Witness ==
    /\ LastCall("_resolve") /\ exc = SchemaValidationError
    /\ heap[call[2]].cls = CTD
    /\ heap[call[2]].domNode.ions = "extension"
    /\ heap[call[2]].domNode.base = NoAttr
    /\ heap[call[2]].derivationMethod = Unset
    /\ ~Queued(call[2])
(***************************************************************************)
(* C25: within one pass of _resolveTypeDefinitions the definitions are     *)
(* resolved in queue order and a resolution made earlier in the pass is    *)
(* seen by the later ones: when every definition of the pass is a          *)
(* restriction whose base is resolved already or stands earlier in the     *)
(* queue, each resolution of the pass resolves its definition, nothing is  *)
(* put back on the queue, and the queue is empty after the pass.           *)
(***************************************************************************)
\* The position of definition o in the snapshot of the pass (0: not there).
Position(o) ==
    IF InList(unresolved, o)
    THEN CHOOSE i \in 1..Len(unresolved) : unresolved[i] = o
    ELSE 0
\* The snapshot of the running pass holds restrictions only, each once, and
\* the base of each is a registered simple type that stands earlier in the
\* snapshot or, standing outside it, is resolved.
PassOrdered ==
    /\ pc = "for"
    /\ \A i \in 1..Len(unresolved) :
          /\ Count(unresolved, unresolved[i]) = 1
          /\ heap[unresolved[i]].cls = STD
          /\ IsRestrictionNode(heap[unresolved[i]].domNode)
          /\ heap[unresolved[i]].domNode.base \in Names
          /\ LET B == typeDefinitions[heap[unresolved[i]].domNode.base]
             IN  /\ B # None
                 /\ heap[B].cls = STD
                 /\ IF InList(unresolved, B) THEN Position(B) < i
                    ELSE Resolved(B)
C25_OrderedPassResolvesAll ==
    [][PassOrdered =>
          /\ unresolvedTypeDefinitions' = <<>>
          /\ IF idx <= Len(unresolved)
             THEN /\ pc' = "for"
                  /\ heap'[unresolved[idx]].variety # Unset
                  /\ heap'[unresolved[idx]].baseTypeDefinition
                        = typeDefinitions[heap[unresolved[idx]].domNode.base]
             ELSE /\ pc' = "while"
                  /\ \A i \in 1..Len(unresolved) : Resolved(unresolved[i])]_vars
(***************************************************************************)
(* C26: a schema-defined simple type defined by restriction of a resolved  *)
(* base resolves with that base as base type and the base's variety, and   *)
(* with the base's item type when the variety is list; a restriction       *)
(* without a base attribute takes the simple ur-type as base and its       *)
(* variety.                                                                *)
(***************************************************************************)
\* The element of o has the restriction form only.
RestrictionOnly(o) ==
    /\ heap[o].cls = STD /\ HasNode(o)
    /\ heap[o].domNode.nList = 0 /\ heap[o].domNode.nUnion = 0
    /\ heap[o].domNode.nRestriction = 1
\* The base type the restriction of o names: the simple ur-type when there
\* is no base attribute.
BaseNamed(o) ==
    IF heap[o].domNode.base = NoAttr THEN SimpleUrType
    ELSE IF heap[o].domNode.base \in Names
    THEN typeDefinitions[heap[o].domNode.base]
    ELSE None
\* o is an unresolved schema-defined restriction of a resolved simple type.
C26_Case(o) ==
    /\ RestrictionOnly(o) /\ ~IsBuiltin(o) /\ ~Resolved(o)
    /\ BaseNamed(o) # None
    /\ heap[BaseNamed(o)].cls = STD
    /\ Resolved(BaseNamed(o))
C26_RestrictionInherits ==
    [][\A o \in Objects :
          (LastCall("_resolve")' /\ call'[2] = o /\ C26_Case(o))
              => /\ exc' = NoExc
                 /\ heap'[o].baseTypeDefinition = BaseNamed(o)
                 /\ heap'[o].variety = heap[BaseNamed(o)].variety
                 /\ heap[BaseNamed(o)].variety = VARIETY_list
                       => heap'[o].itemTypeDefinition
                             = heap[BaseNamed(o)].itemTypeDefinition]_vars

(***************************************************************************)
(* C27: a schema-defined simple type defined by restriction of a resolved  *)
(* base of union variety resolves without error to variety union with the  *)
(* member types of the base, in the same order.                            *)
(***************************************************************************)
C27_UnionRestrictionInherits ==
    [][\A o \in Objects :
          (/\ LastCall("_resolve")' /\ call'[2] = o /\ C26_Case(o)
           /\ heap[BaseNamed(o)].variety = VARIETY_union)
              => /\ exc' = NoExc
                 /\ heap'[o].variety = VARIETY_union
                 /\ heap'[o].memberTypeDefinitions
                       = heap[BaseNamed(o)].memberTypeDefinitions]_vars

(***************************************************************************)
(* C28: resolving a simple type that has the union form (without a         *)
(* memberTypes attribute) sets its variety to union and its base type to   *)
(* the simple ur-type, and its member types to one new definition per      *)
(* nested simpleType child, in document order; each member is unresolved   *)
(* and has been appended to the unresolved queue once; when                *)
(* _resolveTypeDefinitions has returned the members are resolved.          *)
(***************************************************************************)
\* The element of o has the union form only, without memberTypes.
C28_Case(o) ==
    /\ heap[o].cls = STD /\ HasNode(o) /\ ~Resolved(o)
    /\ heap[o].domNode.nList = 0 /\ heap[o].domNode.nRestriction = 0
    /\ heap[o].domNode.nUnion = 1
    /\ ~heap[o].domNode.memberTypes
\* The definitions a step has constructed, in the order of construction.
Constructed == [i \in 1..(Len(heap') - Len(heap)) |-> Len(heap) + i]
\* The union types whose members were made from their nested children.
UnionTypes ==
    {o \in Objects : /\ heap[o].cls = STD /\ HasNode(o)
                     /\ heap[o].variety = VARIETY_union
                     /\ heap[o].domNode.nUnion = 1}
C31_FailedResolveLeavesUnresolved ==
    [][\A o \in Objects :
          (/\ LastCall("_resolve")' /\ call'[2] = o
           /\ heap[o].cls = STD /\ ~Resolved(o)
           /\ exc' \in {SchemaValidationError, IncompleteImplementationError})
              => heap'[o].variety = Unset]_vars

(***************************************************************************)
(* C32: in every reachable state every resolved simple type carries        *)
(* exactly the fields its variety permits: the primitive type is set if    *)
(* and only if the variety is atomic, the item type if and only if it is   *)
(* list, the member types if and only if it is union.                      *)
(***************************************************************************)
\* The variety-specific fields of o are those of its variety and no others.
FieldsFitVariety(o) ==
    /\ heap[o].primitiveTypeDefinition # None
          <=> heap[o].variety = VARIETY_atomic
    /\ heap[o].itemTypeDefinition # None
          <=> heap[o].variety = VARIETY_list
    /\ heap[o].memberTypeDefinitions # NoMembers
          <=> heap[o].variety = VARIETY_union
\* Stated for the states in which no call has failed, where the fields are
\* those that completed resolutions have left.
C32_FieldsFitVariety ==
    pc \notin {"raised", "hung"}
        => \A o \in Objects :
               (heap[o].cls = STD /\ Resolved(o)) => FieldsFitVariety(o)

(***************************************************************************)
(* C33: in every reachable state the unresolved queue of the schema holds  *)
(* each type definition at most once, and no registration of a definition  *)
(* freshly made by CreateFromDOM fails an assertion of _addTypeDefinition  *)
(* (the new definition is in the queue, the absorbing one is not), also    *)
(* when the same name is declared more than once.                          *)
(***************************************************************************)
\* No definition is in the queue twice.
QueuedOnce ==
    \A i, j \in 1..Len(unresolvedTypeDefinitions) :
        unresolvedTypeDefinitions[i] = unresolvedTypeDefinitions[j] => i = j
C33_RegistrationAssertionsHold ==
    /\ []QueuedOnce
    /\ [][(pc = "made" /\ LastCall("_addTypeDefinition")')
             => exc' # AssertionError]_vars

(***************************************************************************)
(* C34: in every reachable state the codec binding is bidirectional and    *)
(* one-to-one: the codec held in the pythonSupport field of a simple type  *)
(* is bound to that simple type, and no codec is held by two different     *)
(* simple types, also after a binding attempt that was rejected.           *)
(***************************************************************************)
\* The simple types that hold a codec.
Supported ==
    {s \in Objects : heap[s].cls = STD /\ heap[s].pythonSupport # None}
\* A factory call has failed: the definition it was constructing was never
\* handed to the caller.
FactoryFailed == exc # NoExc /\ ~LastCall("_setPythonSupport")
\* Stated for the simple types the caller holds.
C34_CodecBindingOneToOne ==
    ~FactoryFailed =>
        /\ \A s \in Supported :
              psts[heap[s].pythonSupport].simpleTypeDefinition = s
        /\ \A s, t \in Supported :
              heap[s].pythonSupport = heap[t].pythonSupport => s = t
====
